---- MODULE Spec2Model ----
(***************************************************************************)
(* Model of tfe-run (src/main.go): Client.Run, which drives one Terraform  *)
(* Cloud run from configuration upload to completion, and pollWithContext, *)
(* the polling loop it uses twice.                                         *)
(*                                                                         *)
(* Time is counted in units of the polling interval (500 ms).  Strings the *)
(* code transforms are sequences of chunks, "_" and " " being chunks of    *)
(* their own; errors are sequences of message parts, outermost first, the  *)
(* nil error being the empty sequence; a *bool is <<>> (nil) or <<b>>.     *)
(***************************************************************************)
EXTENDS Integers, Sequences, FiniteSets, TLC

\* ---------------------------------------------------------------- bounds
\* Largest timeout handed to pollWithContext by the stand-alone caller.
MaxTimeout ==
    2

\* Duration of a slow remote call, in intervals.
LongCall ==
    7200

\* Most ticks one poll runs in the model.
TickCap ==
    MaxTimeout + 1

\* Longest targets and replacements input, in characters.
MaxInputLen ==
    1

\* How long one invocation of the polled operation may take.
CallTimes ==
    {0, LongCall}

\* ------------------------------------------------------------- constants
\* time.After(500 * time.Millisecond): one interval.
Interval ==
    1

\* pollWithContext(ctx, 5*time.Second, ...): 5 s in intervals.
CvTimeout ==
    10

\* pollWithContext(ctx, 60*time.Minute, ...): 60 min in intervals.
RunTimeout ==
    7200

RunTypePlan ==
    0

RunTypeApply ==
    1

RunTypeDestroy ==
    2

RunTypes ==
    {RunTypePlan, RunTypeApply, RunTypeDestroy}

\* ----------------------------------------------------------------- errors
Nil ==
    <<>>

ErrTimeout ==
    <<"timed out while polling">>

Canceled ==
    <<"context canceled">>

\* An error of the remote service or of the polled operation.
RemoteErr ==
    <<"remote error">>

\* tfe.ErrResourceNotFound
ErrResourceNotFound ==
    <<"resource not found">>

\* An error of the local file system.
FsErr ==
    <<"file system error">>

\* fmt.Errorf("<msg>: %w", e)
Wrap(msg, e) ==
    <<msg>> \o e

\* A nil *string.
NilStr ==
    "<nil>"

\* ------------------------------------------------------------ run statuses
RunPending ==
    <<"pending">>

RunApplying ==
    <<"applying">>

RunPolicySoftFailed ==
    <<"policy", "_", "soft", "_", "failed">>

RunPlannedAndFinished ==
    <<"planned", "_", "and", "_", "finished">>

RunApplied ==
    <<"applied">>

RunDiscarded ==
    <<"discarded">>

RunErrored ==
    <<"errored">>

RunCanceled ==
    <<"canceled">>

RunStatuses ==
    {RunPending, RunApplying, RunPolicySoftFailed, RunPlannedAndFinished,
     RunApplied, RunDiscarded, RunErrored, RunCanceled}

ConfigurationPending ==
    "pending"

ConfigurationUploaded ==
    "uploaded"

ConfigurationErrored ==
    "errored"

CvStatuses ==
    {ConfigurationPending, ConfigurationUploaded, ConfigurationErrored}

\* ---------------------------------------------------------- pure functions
isEndStatus(s) ==
    s \in {RunPolicySoftFailed, RunPlannedAndFinished, RunApplied,
           RunDiscarded, RunErrored, RunCanceled}

\* prettyPrint returning the status token untouched.
prettyPrint_Identity(s) ==
    s

\* strings.ReplaceAll(string(r), "_", " ")
prettyPrint(s) ==
    [i \in DOMAIN s |-> IF s[i] = "_" THEN " " ELSE s[i]]

\* Speculative tested against the wrong run type.
CvCreateOptions_NotDestroy(type) ==
    [AutoQueueRuns |-> FALSE, Speculative |-> (type # RunTypeDestroy)]

\* tfe.ConfigurationVersionCreateOptions built at the top of Run.
CvCreateOptions(type) ==
    [AutoQueueRuns |-> FALSE, Speculative |-> (type = RunTypePlan)]

\* IsDestroy set for every non-speculative run.
RunCreateOptions_NotPlan(opts) ==
    [IsDestroy |-> (opts.Type # RunTypePlan),
     TargetAddrs |-> opts.TargetAddrs, ReplaceAddrs |-> opts.ReplaceAddrs]

\* tfe.RunCreateOptions built before Runs.Create.
RunCreateOptions(opts) ==
    [IsDestroy |-> (opts.Type = RunTypeDestroy),
     TargetAddrs |-> opts.TargetAddrs, ReplaceAddrs |-> opts.ReplaceAddrs]

\* The auto-apply gate left out.
WaitsForCompletion_NoGate(opts, ws) ==
    opts.WaitForCompletion

\* The gate applied to plans as well.
WaitsForCompletion_GatePlans(opts, ws) ==
    opts.WaitForCompletion /\ ws.AutoApply

\* The WaitForCompletion test left out.
WaitsForCompletion_AlwaysWait(opts, ws) ==
    ~ (~(opts.Type = RunTypePlan) /\ ~ws.AutoApply)

\* The two early returns after run creation: TRUE when Run goes on to poll.
WaitsForCompletion(opts, ws) ==
    /\ opts.WaitForCompletion
    /\ ~ (~(opts.Type = RunTypePlan) /\ ~ws.AutoApply)

\* The switch without its tfe.RunApplied case.
StatusErr_NoApplied(run) ==
    IF run.Status \in {RunPlannedAndFinished}
    THEN Nil
    ELSE <<"run", run.ID, "finished with status">> \o prettyPrint(run.Status)

\* The switch on r.Status after the completion poll.
StatusErr(run) ==
    IF run.Status \in {RunPlannedAndFinished, RunApplied}
    THEN Nil
    ELSE <<"run", run.ID, "finished with status">> \o prettyPrint(run.Status)

\* The pollFn errors not ending the loop.
TickOutcome_RetryOnError(success, e, elapsed, to) ==
    IF success
    THEN [ret |-> TRUE, err |-> e]
    ELSE IF elapsed > to
         THEN [ret |-> TRUE, err |-> ErrTimeout]
         ELSE [ret |-> FALSE, err |-> Nil]

\* The timeout tested before pollFn's success.
TickOutcome_TimeoutFirst(success, e, elapsed, to) ==
    IF e # Nil
    THEN [ret |-> TRUE, err |-> e]
    ELSE IF elapsed > to
         THEN [ret |-> TRUE, err |-> ErrTimeout]
         ELSE [ret |-> success, err |-> Nil]

\* The timeout tested with >= instead of >.
TickOutcome_AtTimeout(success, e, elapsed, to) ==
    IF e # Nil \/ success
    THEN [ret |-> TRUE, err |-> e]
    ELSE IF elapsed >= to
         THEN [ret |-> TRUE, err |-> ErrTimeout]
         ELSE [ret |-> FALSE, err |-> Nil]

\* The timeout tested before pollFn's result is looked at.
TickOutcome_TimeoutBeforeResult(success, e, elapsed, to) ==
    IF elapsed > to
    THEN [ret |-> TRUE, err |-> ErrTimeout]
    ELSE IF e # Nil \/ success
         THEN [ret |-> TRUE, err |-> e]
         ELSE [ret |-> FALSE, err |-> Nil]

\* What pollWithContext does once pollFn has returned (success, e) with
\* `elapsed` on the clock since start: return e, return ErrTimeout, or loop.
TickOutcome(success, e, elapsed, to) ==
    IF e # Nil \/ success
    THEN [ret |-> TRUE, err |-> e]
    ELSE IF elapsed > to
         THEN [ret |-> TRUE, err |-> ErrTimeout]
         ELSE [ret |-> FALSE, err |-> Nil]

\* The condition of the configuration poll's closure inverted on errored.
CvPollResult_IgnoreErrored(c) ==
    <<c.Status = ConfigurationUploaded, Nil>>

\* The closure satisfied by any status that is not errored.
CvPollResult_AnyStatus(c) ==
    IF c.Status = ConfigurationErrored
    THEN <<FALSE, <<"configuration version errored", c.Error, c.ErrorMessage>>>>
    ELSE <<TRUE, Nil>>

\* What the configuration poll's closure returns for a configuration
\* version that was read without error.
CvPollResult(c) ==
    IF c.Status = ConfigurationErrored
    THEN <<FALSE, <<"configuration version errored", c.Error, c.ErrorMessage>>>>
    ELSE <<c.Status = ConfigurationUploaded, Nil>>

\* HasChanges assigned before the poll's error is looked at.
HasChangesAfterPoll_Always(ret, run, old) ==
    <<run.HasChanges>>

\* output.HasChanges after the completion poll returned ret.
HasChangesAfterPoll(ret, run, old) ==
    IF ret # Nil THEN old ELSE <<run.HasChanges>>

\* The deferred closure assigning Run's named result.
AfterDefer_Overrides(e, removeError) ==
    IF removeError # Nil THEN removeError ELSE e

\* Run's error once the deferred closure has run: the closure declares an
\* err of its own and only prints it.
AfterDefer(e, removeError) ==
    e

\* Whether the closure of the completion poll prints the status it read.
LogsStatus_Always(prev, s) ==
    TRUE

LogsStatus(prev, s) ==
    prev # s

\* ------------------------------------------------------------ main's input
InputChars ==
    {"a", "\n"}

\* The strings given as targets.
InputStrings ==
    UNION {[1..n -> InputChars] : n \in 0..MaxInputLen}

\* The strings given as replacements: not given, and one address.
ReplacementInputs ==
    {<<>>, <<"a">>}

TypeInputs ==
    {"plan", "apply", "destroy", "refresh"}

\* asRunType: the run type, or ok = FALSE where it calls exitWithError.
asRunType(s) ==
    IF s = "apply" THEN [ok |-> TRUE, type |-> RunTypeApply]
    ELSE IF s = "plan" THEN [ok |-> TRUE, type |-> RunTypePlan]
    ELSE IF s = "destroy" THEN [ok |-> TRUE, type |-> RunTypeDestroy]
    ELSE [ok |-> FALSE, type |-> 0]

notEmptyOrNil(s) ==
    IF s = "" THEN NilStr ELSE s

RECURSIVE Split(_, _)
\* strings.Split(s, sep) for a one-character separator.
Split(s, sep) ==
    IF \E i \in DOMAIN s : s[i] = sep
    THEN LET i == CHOOSE k \in DOMAIN s :
                     s[k] = sep /\ \A j \in 1..(k - 1) : s[j] # sep
         IN  <<SubSeq(s, 1, i - 1)>> \o Split(SubSeq(s, i + 1, Len(s)), sep)
    ELSE <<s>>

\* The length tested instead of the elements.
notAllEmptyOrNil_LenOnly(slice) ==
    IF Len(slice) = 0 THEN <<>> ELSE <<slice>>

\* notAllEmptyOrNil: a slice is <<>> (nil) or <<elements>>.
notAllEmptyOrNil(slice) ==
    IF \E i \in DOMAIN slice : slice[i] # <<>> THEN <<slice>> ELSE <<>>

\* strconv.FormatBool
FormatBool(b) ==
    IF b THEN <<"true">> ELSE <<"false">>

\* ------------------------------------------------------------------ state
VARIABLES
    caller,       \* "poll": pollWithContext called on its own; "Run": Client.Run
                  \* called with a cancellable context; "main": the action
    input,        \* the action's inputs
    mainPc,       \* position in main
    exitCode,     \* exit status of main, -1 while it runs
    written,      \* outputs written with gha.WriteOutput
    options,      \* RunOptions
    workspace,    \* c.workspace
    pc,           \* position in Run
    cvOptions,    \* options of the ConfigurationVersions.Create call, <<>> before it
    cv,           \* last configuration version received
    fileExists,   \* run.auto.tfvars is on disk
    deferRemove,  \* the deferred os.Remove is registered
    removeErr,    \* error of the deferred os.Remove
    rOptions,     \* options of the Runs.Create call, <<>> before it
    r,            \* last run received
    output,       \* RunOutput (named result)
    err,          \* error (named result)
    prevStatus,   \* prevStatus of the completion poll
    seen,         \* statuses read by the completion poll
    log,          \* "Run status: ..." lines printed
    remote,       \* remote calls issued so far, with the file's presence
    ctxDone,      \* ctx has been cancelled
    pollPc,       \* position in pollWithContext
    pollKind,     \* which pollFn the running poll was given
    timeout,      \* its timeout argument
    sinceStart,   \* time.Since(start)
    timerFired,   \* the channel of time.After is ready
    ticks,        \* invocations of pollFn in this poll
    fnResult,     \* last (success, err) of pollFn, <<>> before the first
    pollRet       \* return value of pollWithContext

pollVars ==
    <<pollPc, pollKind, timeout, sinceStart, timerFired, ticks, fnResult, pollRet>>

mainVars ==
    <<input, mainPc, exitCode, written>>

runVars ==
    <<options, workspace, pc, cvOptions, cv, fileExists, deferRemove, removeErr,
      rOptions, r, output, err, prevStatus, seen, log, remote>>

vars ==
    <<caller, ctxDone, mainVars, pollVars, runVars>>

NilCv ==
    [Status |-> "", Error |-> "", ErrorMessage |-> ""]

NilRun ==
    [ID |-> "", Status |-> <<>>, HasChanges |-> FALSE]

RunID ==
    "run-1"

RunURLOf(id) ==
    <<"https://app.terraform.io/app/", "org", "/workspaces/", "ws", "/runs/", id>>

\* The options Run is called with directly.
OptionsSet ==
    [Type : RunTypes, WaitForCompletion : BOOLEAN, TfVars : {NilStr, "x = 1"},
     TargetAddrs : {<<>>}, ReplaceAddrs : {<<>>}]

\* The zero RunOptions.
NoOptions ==
    [Type |-> RunTypePlan, WaitForCompletion |-> FALSE, TfVars |-> NilStr,
     TargetAddrs |-> <<>>, ReplaceAddrs |-> <<>>]

InputSet ==
    [Type : TypeInputs, Targets : InputStrings, Replacements : ReplacementInputs,
     WaitForCompletion : BOOLEAN, TfVars : {"", "x = 1"}]

\* The zero input.
NoInput ==
    [Type |-> "", Targets |-> <<>>, Replacements |-> <<>>,
     WaitForCompletion |-> FALSE, TfVars |-> ""]

Init ==
    /\ caller \in {"poll", "Run", "main"}
    /\ ctxDone = FALSE
    /\ IF caller = "poll"
       THEN /\ options = NoOptions
            /\ workspace = [AutoApply |-> FALSE]
            /\ pc = "none"
            /\ pollPc = "select"
            /\ pollKind = "fn"
            /\ timeout \in 0..MaxTimeout
            /\ input = NoInput
            /\ mainPc = "none"
       ELSE IF caller = "Run"
       THEN /\ options \in OptionsSet
            /\ workspace \in [AutoApply : BOOLEAN]
            /\ pc = "Run"
            /\ pollPc = "idle"
            /\ pollKind = "none"
            /\ timeout = 0
            /\ input = NoInput
            /\ mainPc = "none"
       ELSE /\ options = NoOptions
            /\ workspace \in [AutoApply : BOOLEAN]
            /\ pc = "none"
            /\ pollPc = "idle"
            /\ pollKind = "none"
            /\ timeout = 0
            /\ input \in InputSet
            /\ mainPc = "start"
    /\ exitCode = -1
    /\ written = <<>>
    /\ cvOptions = <<>>
    /\ cv = NilCv
    /\ fileExists = FALSE
    /\ deferRemove = FALSE
    /\ removeErr = Nil
    /\ rOptions = <<>>
    /\ r = NilRun
    /\ output = [RunURL |-> <<>>, HasChanges |-> <<>>]
    /\ err = Nil
    /\ prevStatus = <<>>
    /\ seen = <<>>
    /\ log = <<>>
    /\ remote = <<>>
    /\ sinceStart = 0
    /\ timerFired = FALSE
    /\ ticks = 0
    /\ fnResult = <<>>
    /\ pollRet = Nil

\* ------------------------------------------------------- pollWithContext
\* start := time.Now() and the first arrival at the select.
StartPoll(k, to) ==
    /\ pollPc' = "select"
    /\ pollKind' = k
    /\ timeout' = to
    /\ sinceStart' = 0
    /\ timerFired' = FALSE
    /\ ticks' = 0
    /\ fnResult' = <<>>
    /\ pollRet' = Nil

\* The interval passes while the loop sits in the select.
TimerFires ==
    /\ pollPc = "select"
    /\ ~timerFired
    /\ timerFired' = TRUE
    /\ sinceStart' = sinceStart + Interval
    /\ UNCHANGED <<caller, ctxDone, mainVars, runVars, pollPc, pollKind,
                   timeout, ticks, fnResult, pollRet>>

\* The caller's context is cancelled; main runs with context.Background().
Cancel ==
    /\ ~ctxDone
    /\ \/ caller = "poll" /\ pollPc # "returned"
       \/ caller = "Run" /\ pc # "returned"
    /\ ctxDone' = TRUE
    /\ UNCHANGED <<caller, mainVars, pollVars, runVars>>

\* case <-ctx.Done(): return context.Canceled
SelectDone ==
    /\ pollPc = "select"
    /\ ctxDone
    /\ pollPc' = "returned"
    /\ pollRet' = Canceled
    /\ UNCHANGED <<caller, ctxDone, mainVars, runVars, pollKind, timeout,
                   sinceStart, timerFired, ticks, fnResult>>

\* The name of the remote call the given pollFn issues first.
FnCall(k) ==
    IF k = "cv" THEN <<[call |-> "ConfigurationVersions.Read", file |-> fileExists]>>
    ELSE IF k = "run" THEN <<[call |-> "Runs.Read", file |-> fileExists]>>
    ELSE <<>>

\* case <-time.After(...): pollFn is invoked.
SelectTimer ==
    /\ pollPc = "select"
    /\ timerFired
    /\ ticks < TickCap
    /\ pollPc' = "inFn"
    /\ ticks' = ticks + 1
    /\ remote' = remote \o FnCall(pollKind)
    /\ UNCHANGED <<caller, ctxDone, mainVars, pollKind, timeout, sinceStart,
                   timerFired, fnResult, pollRet, options, workspace, pc,
                   cvOptions, cv, fileExists, deferRemove, removeErr, rOptions,
                   r, output, err, prevStatus, seen, log>>

\* pollFn has returned (success, e) after d: the rest of the loop body.
FinishTick(success, e, d) ==
    LET o == TickOutcome(success, e, sinceStart + d, timeout) IN
    /\ sinceStart' = sinceStart + d
    /\ fnResult' = <<success, e>>
    /\ pollPc' = IF o.ret THEN "returned" ELSE "select"
    /\ pollRet' = o.err
    /\ timerFired' = FALSE
    /\ UNCHANGED <<pollKind, timeout, ticks>>

\* The operation of the stand-alone caller: any result, any duration.
PollFn ==
    /\ pollPc = "inFn"
    /\ pollKind = "fn"
    /\ \E success \in BOOLEAN, e \in {Nil, RemoteErr}, d \in CallTimes :
           FinishTick(success, e, d)
    /\ UNCHANGED <<caller, ctxDone, mainVars, runVars>>

\* ------------------------------------------------------------- Client.Run
RemoteCall(name) ==
    remote' = Append(remote, [call |-> name, file |-> fileExists])

\* return, with the deferred os.Remove(varsFile), which can fail.
Return(e) ==
    /\ pc' = "returned"
    /\ IF deferRemove
       THEN \E re \in {Nil, FsErr} :
               /\ removeErr' = re
               /\ fileExists' = (fileExists /\ re # Nil)
               /\ err' = AfterDefer(e, re)
       ELSE /\ removeErr' = removeErr
            /\ fileExists' = fileExists
            /\ err' = e

\* Run goes on: nothing of what a return changes is changed.
Continue(next) ==
    /\ pc' = next
    /\ UNCHANGED <<err, removeErr>>

CreateConfigurationVersion ==
    /\ pc = "Run"
    /\ cvOptions' = CvCreateOptions(options.Type)
    /\ RemoteCall("ConfigurationVersions.Create")
    /\ \/ /\ cv' = [NilCv EXCEPT !.Status = ConfigurationPending]
          /\ Continue(IF options.TfVars # NilStr THEN "writeVars" ELSE "upload")
          /\ UNCHANGED fileExists
       \/ /\ Return(<<"could not create configuration version (404 not found), this might happen if you are not using a user or team API token">>)
          /\ UNCHANGED cv
       \/ /\ Return(Wrap("could not create a new configuration version", RemoteErr))
          /\ UNCHANGED cv
    /\ UNCHANGED <<caller, ctxDone, mainVars, pollVars, options, workspace,
                   deferRemove, rOptions, r, output, prevStatus, seen, log>>

WriteVarsFile ==
    /\ pc = "writeVars"
    /\ \/ /\ fileExists' = TRUE
          /\ deferRemove' = TRUE
          /\ Continue("upload")
       \/ /\ Return(Wrap("could not create run.auto.tfvars", FsErr))
          /\ UNCHANGED deferRemove
    /\ UNCHANGED <<caller, ctxDone, mainVars, pollVars, options, workspace,
                   cvOptions, cv, rOptions, r, output, prevStatus, seen, log,
                   remote>>

Upload ==
    /\ pc = "upload"
    /\ RemoteCall("ConfigurationVersions.Upload")
    /\ \/ /\ Continue("cvPoll")
          /\ StartPoll("cv", CvTimeout)
          /\ UNCHANGED fileExists
       \/ /\ Return(Wrap("could not upload directory", RemoteErr))
          /\ UNCHANGED pollVars
    /\ UNCHANGED <<caller, ctxDone, mainVars, options, workspace, cvOptions, cv,
                   deferRemove, rOptions, r, output, prevStatus, seen, log>>

\* The closure polled for the configuration version.
CvPollFn ==
    /\ pollPc = "inFn"
    /\ pollKind = "cv"
    /\ \E d \in CallTimes :
       \/ /\ cv' = NilCv
          /\ FinishTick(FALSE, Wrap("could not get current configuration version", RemoteErr), d)
       \/ \E c \in {[NilCv EXCEPT !.Status = ConfigurationPending],
                    [NilCv EXCEPT !.Status = ConfigurationUploaded],
                    [Status |-> ConfigurationErrored, Error |-> "cv error",
                     ErrorMessage |-> "cv error message"]} :
          /\ cv' = c
          /\ FinishTick(CvPollResult(c)[1], CvPollResult(c)[2], d)
    /\ UNCHANGED <<caller, ctxDone, mainVars, options, workspace, pc, cvOptions,
                   fileExists, deferRemove, removeErr, rOptions, r, output, err,
                   prevStatus, seen, log, remote>>

AfterCvPoll ==
    /\ pc = "cvPoll"
    /\ pollPc = "returned"
    /\ pollPc' = "idle"
    /\ IF pollRet # Nil
       THEN Return(Wrap("uploading configuration version failed", pollRet))
       ELSE /\ Continue("createRun")
            /\ UNCHANGED fileExists
    /\ UNCHANGED <<caller, ctxDone, mainVars, pollKind, timeout, sinceStart,
                   timerFired, ticks, fnResult, pollRet, options, workspace,
                   cvOptions, cv, deferRemove, rOptions, r, output, prevStatus,
                   seen, log, remote>>

CreateRun ==
    /\ pc = "createRun"
    /\ rOptions' = RunCreateOptions(options)
    /\ RemoteCall("Runs.Create")
    /\ \/ /\ Return(Wrap("could not create run", RemoteErr))
          /\ UNCHANGED <<r, output, pollVars>>
       \/ /\ r' = [ID |-> RunID, Status |-> RunPending, HasChanges |-> FALSE]
          /\ output' = [output EXCEPT !.RunURL = RunURLOf(r'.ID)]
          /\ IF WaitsForCompletion(options, workspace)
             THEN /\ Continue("runPoll")
                  /\ StartPoll("run", RunTimeout)
                  /\ UNCHANGED fileExists
             ELSE /\ Return(Nil)
                  /\ UNCHANGED pollVars
    /\ UNCHANGED <<caller, ctxDone, mainVars, options, workspace, cvOptions, cv,
                   deferRemove, prevStatus, seen, log>>

\* The closure polled for the run.
RunPollFn ==
    /\ pollPc = "inFn"
    /\ pollKind = "run"
    /\ \E d \in CallTimes :
       \/ /\ r' = NilRun
          /\ FinishTick(FALSE, Wrap("could not read run", RemoteErr), d)
          /\ UNCHANGED <<prevStatus, seen, log>>
       \/ \E s \in RunStatuses, hc \in BOOLEAN :
          /\ r' = [ID |-> RunID, Status |-> s, HasChanges |-> hc]
          /\ seen' = Append(seen, s)
          /\ IF LogsStatus(prevStatus, s)
             THEN /\ log' = Append(log, prettyPrint(s))
                  /\ prevStatus' = s
             ELSE UNCHANGED <<prevStatus, log>>
          /\ FinishTick(isEndStatus(s), Nil, d)
    /\ UNCHANGED <<caller, ctxDone, mainVars, options, workspace, pc, cvOptions,
                   cv, fileExists, deferRemove, removeErr, rOptions, output, err,
                   remote>>

AfterRunPoll ==
    /\ pc = "runPoll"
    /\ pollPc = "returned"
    /\ pollPc' = "idle"
    /\ output' = [output EXCEPT
                    !.HasChanges = HasChangesAfterPoll(pollRet, r, output.HasChanges)]
    /\ IF pollRet # Nil
       THEN Return(Wrap("waiting for completion of run failed", pollRet))
       ELSE Return(StatusErr(r))
    /\ UNCHANGED <<caller, ctxDone, mainVars, pollKind, timeout, sinceStart,
                   timerFired, ticks, fnResult, pollRet, options, workspace,
                   cvOptions, cv, deferRemove, rOptions, r, prevStatus, seen,
                   log, remote>>

\* ------------------------------------------------------------------- main
\* exitWithError, and the os.Exit(1) after a failed Run.
Exit(code) ==
    /\ mainPc' = "exited"
    /\ exitCode' = code

\* main up to the call of Run: the checks that end in exitWithError, the
\* workspace read of NewClient, and the RunOptions built from the input.
MainStart ==
    /\ mainPc = "start"
    /\ \/ \* not in GitHub Actions, or gha.PopulateFromInputs failed
          /\ Exit(1)
          /\ UNCHANGED <<options, pc, remote>>
       \/ /\ ~asRunType(input.Type).ok
          /\ Exit(1)
          /\ UNCHANGED <<options, pc, remote>>
       \/ /\ asRunType(input.Type).ok
          /\ RemoteCall("Workspaces.Read")
          /\ \/ /\ Exit(1)
                /\ UNCHANGED <<options, pc>>
             \/ /\ options' =
                      [Type |-> asRunType(input.Type).type,
                       TargetAddrs |-> notAllEmptyOrNil(Split(input.Targets, "\n")),
                       ReplaceAddrs |-> notAllEmptyOrNil(Split(input.Replacements, "\n")),
                       WaitForCompletion |-> input.WaitForCompletion,
                       TfVars |-> notEmptyOrNil(input.TfVars)]
                /\ pc' = "Run"
                /\ mainPc' = "inRun"
                /\ UNCHANGED exitCode
    /\ UNCHANGED <<caller, ctxDone, input, written, pollVars, workspace,
                   cvOptions, cv, fileExists, deferRemove, removeErr, rOptions,
                   r, output, err, prevStatus, seen, log>>

\* The outputs main writes for a RunOutput.
RunOutputs(out) ==
    <<[name |-> <<"run-url">>, value |-> out.RunURL]>>
    \o (IF out.HasChanges # <<>>
        THEN <<[name |-> <<"has-changes">>, value |-> FormatBool(out.HasChanges[1])]>>
        ELSE <<>>)

\* main going on whatever Run returned.
GoesOnAfterRun_Always(e) ==
    TRUE

\* Whether main goes on after Run returned e.
GoesOnAfterRun(e) ==
    e = Nil

\* Run has returned: exit on an error, else write the outputs.
MainAfterRun ==
    /\ mainPc = "inRun"
    /\ pc = "returned"
    /\ IF GoesOnAfterRun(err)
       THEN /\ written' = written \o RunOutputs(output)
            /\ mainPc' = "outputs"
            /\ UNCHANGED exitCode
       ELSE /\ Exit(1)
            /\ UNCHANGED written
    /\ UNCHANGED <<caller, ctxDone, input, pollVars, runVars>>

\* The outputs of the current state, by name.
StateOutputs ==
    {<<>>, <<[name |-> "endpoint", value |-> <<"https://x">>]>>}

\* GetTerraformOutputs and the writing of the tf- outputs.
GetTerraformOutputs ==
    /\ mainPc = "outputs"
    /\ \/ /\ RemoteCall("StateVersions.ReadCurrent")
          /\ Exit(1)
          /\ UNCHANGED written
       \/ \* the download fails, or the state does not parse
          /\ remote' = remote \o
                <<[call |-> "StateVersions.ReadCurrent", file |-> fileExists],
                  [call |-> "StateVersions.Download", file |-> fileExists]>>
          /\ Exit(1)
          /\ UNCHANGED written
       \/ \E outs \in StateOutputs :
          /\ remote' = remote \o
                <<[call |-> "StateVersions.ReadCurrent", file |-> fileExists],
                  [call |-> "StateVersions.Download", file |-> fileExists]>>
          /\ written' = written \o
                [i \in DOMAIN outs |->
                    [name |-> <<"tf-", outs[i].name>>, value |-> outs[i].value]]
          /\ Exit(0)
    /\ UNCHANGED <<caller, ctxDone, input, pollVars, options, workspace, pc,
                   cvOptions, cv, fileExists, deferRemove, removeErr, rOptions,
                   r, output, err, prevStatus, seen, log>>

Next ==
    \/ TimerFires
    \/ Cancel
    \/ SelectDone
    \/ SelectTimer
    \/ PollFn
    \/ CreateConfigurationVersion
    \/ WriteVarsFile
    \/ Upload
    \/ CvPollFn
    \/ AfterCvPoll
    \/ CreateRun
    \/ RunPollFn
    \/ AfterRunPoll
    \/ MainStart
    \/ MainAfterRun
    \/ GetTerraformOutputs

Spec ==
    Init /\ [][Next]_vars

\* The goroutine running pollWithContext keeps running and its timer fires.
PollStep ==
    TimerFires \/ SelectDone \/ SelectTimer \/ PollFn

FairSpec ==
    Spec /\ WF_vars(PollStep)

\* ----------------------------------------------------------------- claims
Calls ==
    {remote[i].call : i \in DOMAIN remote}

\* Runs.Create has succeeded in this call of Run.
RunCreated ==
    caller \in {"Run", "main"} /\ output.RunURL # <<>>

\* Run has returned after its completion poll returned nil.
RunCompleted ==
    /\ caller \in {"Run", "main"}
    /\ pc = "returned"
    /\ pollKind = "run"
    /\ pollRet = Nil

RunFailure(status) ==
    <<"run", RunID, "finished with status">> \o status

\* C1: with WaitForCompletion set, a run type other than plan and auto-apply
\* off, Run returns right after the run is created: no Runs.Read is ever
\* issued, HasChanges stays nil and no error is returned.
C1_GatedRunReturnsAtOnce ==
    (/\ caller \in {"Run", "main"}
     /\ options.WaitForCompletion
     /\ options.Type # RunTypePlan
     /\ ~workspace.AutoApply)
    => /\ "Runs.Read" \notin Calls
       /\ pollKind # "run"
       /\ output.HasChanges = <<>>
       /\ RunCreated => (pc = "returned" /\ err = Nil)

C1_Witness ==
    /\ RunCreated
    /\ options.WaitForCompletion
    /\ options.Type = RunTypeApply
    /\ ~workspace.AutoApply
    /\ pc = "returned"

\* C2: with WaitForCompletion set and run type plan, the completion poll is
\* started once the run is created, whatever the workspace's auto-apply flag.
C2_PlanAlwaysPolls ==
    (RunCreated /\ options.WaitForCompletion /\ options.Type = RunTypePlan)
    => /\ pollKind = "run"
       /\ pc = "runPoll" \/ (pc = "returned" /\ pollPc = "idle")

C2_Witness ==
    /\ RunCreated
    /\ options.WaitForCompletion
    /\ options.Type = RunTypePlan
    /\ ~workspace.AutoApply
    /\ "Runs.Read" \in Calls

\* C3: with WaitForCompletion unset, Run returns right after a successful
\* run creation for every run type and auto-apply setting: no Runs.Read is
\* issued, HasChanges is nil and the run URL is set.
C3_NoWaitReturnsAtOnce ==
    (caller \in {"Run", "main"} /\ ~options.WaitForCompletion)
    => /\ "Runs.Read" \notin Calls
       /\ pollKind # "run"
       /\ output.HasChanges = <<>>
       /\ r.ID = RunID =>
             /\ pc = "returned"
             /\ err = Nil
             /\ output.RunURL = RunURLOf(RunID)

C3_Witness ==
    /\ caller = "Run"
    /\ ~options.WaitForCompletion
    /\ options.Type = RunTypePlan
    /\ workspace.AutoApply
    /\ r.ID = RunID
    /\ pc = "returned"

\* C4: the run is created with IsDestroy set exactly when the run type is
\* destroy, on every path that reaches Runs.Create.
C4_DestroyFlagIffDestroy ==
    "Runs.Create" \in Calls
    => /\ rOptions # <<>>
       /\ rOptions.IsDestroy <=> (options.Type = RunTypeDestroy)

C4_Witness ==
    /\ "Runs.Create" \in Calls
    /\ options.Type = RunTypeApply
    /\ ~rOptions.IsDestroy

\* C5: the configuration version is created speculative exactly when the
\* run type is plan, and always with auto-queue-runs off.
C5_SpeculativeIffPlan ==
    "ConfigurationVersions.Create" \in Calls
    => /\ cvOptions # <<>>
       /\ cvOptions.Speculative <=> (options.Type = RunTypePlan)
       /\ ~cvOptions.AutoQueueRuns

C5_Witness ==
    /\ "ConfigurationVersions.Create" \in Calls
    /\ options.Type = RunTypeApply
    /\ ~cvOptions.Speculative

\* C6: when the completion poll ends on a terminal status, applied and
\* planned_and_finished give no error, errored, discarded and canceled give
\* an error with the run id and the status, and HasChanges is the change
\* flag of the run last fetched.
C6_TerminalStatusOutcome ==
    RunCompleted
    => /\ isEndStatus(r.Status)
       /\ output.HasChanges = <<r.HasChanges>>
       /\ r.Status \in {RunApplied, RunPlannedAndFinished} => err = Nil
       /\ r.Status \in {RunErrored, RunDiscarded, RunCanceled}
             => err = RunFailure(r.Status)

C6_Witness ==
    /\ RunCompleted
    /\ r.Status = RunApplied
    /\ r.HasChanges
    /\ err = Nil

\* C7 as stated: a poll that ends on policy_soft_failed does not make Run
\* return a run-failure error.
C7_Original ==
    (RunCompleted /\ r.Status = RunPolicySoftFailed) => err = Nil

\* C7 amended: policy_soft_failed stops the poll and is a failure like
\* errored, discarded and canceled: Run returns the error with the run id
\* and the status "policy soft failed", HasChanges being populated.
C7_SoftFailedIsFailure ==
    /\ (pollKind = "run" /\ fnResult # <<>> /\ r.Status = RunPolicySoftFailed)
          => (pollPc \in {"returned", "idle"} /\ pollRet = Nil)
    /\ (RunCompleted /\ r.Status = RunPolicySoftFailed)
          => /\ err = RunFailure(<<"policy", " ", "soft", " ", "failed">>)
             /\ output.HasChanges = <<r.HasChanges>>

C7_Witness ==
    /\ RunCompleted
    /\ r.Status = RunPolicySoftFailed
    /\ ticks > 1
    /\ err # Nil

\* C8: pollWithContext returns nil on the tick at which pollFn returns
\* (true, nil), the very first included, without waiting another interval
\* and without invoking pollFn again.
C8_DoneReturnsAtOnce ==
    /\ [](fnResult = <<TRUE, Nil>>
            => (pollPc \in {"returned", "idle"} /\ pollRet = Nil))
    /\ [][(fnResult = <<TRUE, Nil>> /\ fnResult' = fnResult)
            => (ticks' = ticks /\ sinceStart' = sinceStart
                /\ timerFired' = timerFired)]_vars

C8_Witness ==
    /\ caller = "poll"
    /\ fnResult = <<TRUE, Nil>>
    /\ ticks = 1
    /\ sinceStart > timeout
    /\ pollPc = "returned"

\* C9: when pollFn never returns done or an error and the context is not
\* cancelled, pollWithContext ends up returning ErrTimeout, with more than
\* the timeout elapsed since its start; it never returns ErrTimeout while
\* the elapsed time is at most the timeout.
C9_TimeoutFromStart ==
    /\ []((pollPc = "returned" /\ pollRet = ErrTimeout) => sinceStart > timeout)
    /\ (caller = "poll")
          ~> \/ ctxDone
             \/ fnResult \notin {<<>>, <<FALSE, Nil>>}
             \/ pollPc = "returned" /\ pollRet = ErrTimeout

C9_Witness ==
    /\ caller = "poll"
    /\ pollPc = "returned"
    /\ pollRet = ErrTimeout
    /\ ~ctxDone
    /\ ticks = TickCap
    /\ timeout = MaxTimeout

\* C10 as stated: once the context is cancelled, a running pollWithContext
\* invokes pollFn no more and does not return ErrTimeout.
C10_Original ==
    [][(ctxDone /\ pollPc \in {"select", "inFn"})
         => (ticks' = ticks /\ pollRet' # ErrTimeout)]_vars

\* The positions in `remote` of the calls of the given name.
CallAt(name) ==
    {i \in DOMAIN remote : remote[i].call = name}

Count(name) ==
    Cardinality(CallAt(name))

LastCall ==
    IF remote = <<>> THEN "" ELSE remote[Len(remote)].call

UploadErr ==
    Wrap("could not upload directory", RemoteErr)

\* Run has returned because the upload failed: no poll was started.
UploadFailed ==
    /\ pc = "returned"
    /\ LastCall = "ConfigurationVersions.Upload"
    /\ pollKind = "none"

\* C11 as stated: once Run has returned after writing the variables file,
\* the file no longer exists.
C11_Original ==
    (pc = "returned" /\ deferRemove) => ~fileExists

\* C11 amended: once the variables file is written it exists at the upload
\* call and until Run returns; on every return the deferred removal is
\* attempted and the file is gone unless os.Remove failed; a failed upload's
\* error is returned unchanged, whatever the removal did.
C11_FileRemovedUnlessRemoveFails ==
    deferRemove
    => /\ \A i \in CallAt("ConfigurationVersions.Upload") : remote[i].file
       /\ pc # "returned" => fileExists
       /\ pc = "returned" => (fileExists <=> removeErr # Nil)
       /\ UploadFailed => err = UploadErr

C11_Witness ==
    /\ deferRemove
    /\ UploadFailed
    /\ removeErr # Nil
    /\ fileExists
    /\ err = UploadErr

\* C12 as stated: main writes the output run-url in every invocation in
\* which a run was created.
C12_Original ==
    (caller = "main" /\ mainPc = "exited" /\ RunCreated)
    => \E i \in DOMAIN written : written[i].name = <<"run-url">>

\* C13: HasChanges of the RunOutput is set only when the completion poll
\* returned nil on a terminal status; it is nil when Run does not poll, when
\* the poll ends by timeout, cancellation or a read error, and when an
\* earlier stage fails.
C13_HasChangesOnlyAfterCompletion ==
    output.HasChanges # <<>>
    => /\ pc = "returned"
       /\ pollKind = "run"
       /\ pollRet = Nil
       /\ fnResult = <<TRUE, Nil>>
       /\ isEndStatus(r.Status)
       /\ output.HasChanges = <<r.HasChanges>>

C13_Witness ==
    /\ pc = "returned"
    /\ pollKind = "run"
    /\ pollRet = ErrTimeout
    /\ seen # <<>>
    /\ output.HasChanges = <<>>

RECURSIVE Changes(_, _)
\* The elements of a sequence that differ from their predecessor, prev
\* being the predecessor of the first.
Changes(seq, prev) ==
    IF seq = <<>> THEN <<>>
    ELSE (IF Head(seq) # prev THEN <<Head(seq)>> ELSE <<>>)
         \o Changes(Tail(seq), Head(seq))

\* The rendering with spaces of the statuses the model reads.
Rendered(s) ==
    IF s = RunPolicySoftFailed THEN <<"policy", " ", "soft", " ", "failed">>
    ELSE IF s = RunPlannedAndFinished
         THEN <<"planned", " ", "and", " ", "finished">>
         ELSE s

\* C14 as stated: every distinct status read by the completion poll is
\* logged exactly once.
C14_Original ==
    Len(log) = Cardinality({seen[i] : i \in DOMAIN seen})

\* C14 amended: a status is logged exactly when it differs from the status
\* read just before it (the empty status before the first read): repeats on
\* consecutive ticks are logged once, a status that comes back after a
\* different one is logged again.
C14_LoggedOnChange ==
    log = [i \in DOMAIN Changes(seen, <<>>) |-> Rendered(Changes(seen, <<>>)[i])]

C14_Witness ==
    /\ Len(seen) = 3
    /\ seen[1] = seen[2]
    /\ seen[3] = RunPlannedAndFinished
    /\ Len(log) = 2

\* The input has no character but the separator.
OnlyNewlines(str) ==
    \A i \in DOMAIN str : str[i] = "\n"

\* A slice handed to the remote API that is nil or has a non-empty string.
NilOrNonEmpty(slice) ==
    slice = <<>> \/ \E i \in DOMAIN slice[1] : slice[1][i] # <<>>

\* C15: an empty targets or replacements input reaches Runs.Create as a nil
\* list, as when the input is not given; no empty list and no list of empty
\* strings only is passed.
C15_EmptyInputIsNil ==
    (caller = "main" /\ "Runs.Create" \in Calls)
    => /\ OnlyNewlines(input.Targets) => rOptions.TargetAddrs = <<>>
       /\ OnlyNewlines(input.Replacements) => rOptions.ReplaceAddrs = <<>>
       /\ NilOrNonEmpty(rOptions.TargetAddrs)
       /\ NilOrNonEmpty(rOptions.ReplaceAddrs)

C15_Witness ==
    /\ caller = "main"
    /\ "Runs.Create" \in Calls
    /\ input.Targets = <<"\n">>
    /\ input.Replacements = <<"a">>
    /\ rOptions.TargetAddrs = <<>>
    /\ rOptions.ReplaceAddrs = << << <<"a">> >> >>

\* C16 as stated: the outputs are fetched once when Run returned without
\* error and also when the run completed in a failure status.
C16_Original ==
    (caller = "main" /\ mainPc = "exited" /\ pc = "returned"
        /\ (err = Nil \/ RunCompleted))
    => Count("StateVersions.ReadCurrent") = 1

\* C16 amended: the outputs are fetched at most once, only after Run has
\* returned, and exactly when Run returned no error; when Run returns an
\* error, a run that completed in a failure status included, main exits
\* without fetching them.
C16_OutputsOnlyAfterSuccess ==
    caller = "main"
    => /\ Count("StateVersions.ReadCurrent") <= 1
       /\ Count("StateVersions.ReadCurrent") = 1 => (pc = "returned" /\ err = Nil)
       /\ (mainPc = "exited" /\ pc = "returned" /\ err = Nil)
             => Count("StateVersions.ReadCurrent") = 1
       /\ (mainPc = "exited" /\ pc = "returned" /\ err # Nil)
             => (Count("StateVersions.ReadCurrent") = 0 /\ exitCode = 1)

C16_Witness ==
    /\ caller = "main"
    /\ mainPc = "exited"
    /\ RunCompleted
    /\ r.Status = RunErrored
    /\ Count("StateVersions.ReadCurrent") = 0

\* C17 as stated: the variables file is gone when the configuration poll,
\* the run creation and the completion poll take place.
C17_Original ==
    \A i \in DOMAIN remote :
        remote[i].call \in {"ConfigurationVersions.Read", "Runs.Create", "Runs.Read"}
        => ~remote[i].file

\* C18: when the configuration poll reads the status errored, the poll ends
\* on that tick with the configuration version's error detail, Run returns
\* that error, wrapped, and no run is created.
C18_ErroredAbortsAtOnce ==
    cv.Status = ConfigurationErrored
    => /\ pollKind = "cv"
       /\ pollPc \in {"returned", "idle"}
       /\ pollRet = <<"configuration version errored", cv.Error, cv.ErrorMessage>>
       /\ cv.Error # "" /\ cv.ErrorMessage # ""
       /\ ticks = Count("ConfigurationVersions.Read")
       /\ "Runs.Create" \notin Calls
       /\ pc = "returned"
             => err = Wrap("uploading configuration version failed", pollRet)

C18_Witness ==
    /\ cv.Status = ConfigurationErrored
    /\ pc = "returned"
    /\ ticks = 2
    /\ sinceStart <= CvTimeout

\* C19 as stated: a run is created only for a configuration version last
\* read in a status beyond uploaded.
C19_Original ==
    "Runs.Create" \in Calls
    => cv.Status \notin {"", ConfigurationPending, ConfigurationUploaded,
                         ConfigurationErrored}

\* C19 amended: a run is created only after the configuration poll has read
\* the status uploaded, the status the code waits for; never for a
\* configuration version last read as pending or errored, and never when
\* that poll ended with a timeout, a cancellation or a failed read.
C19_RunOnlyAfterUploaded ==
    /\ "Runs.Create" \in Calls
          => /\ cv.Status = ConfigurationUploaded
             /\ Count("ConfigurationVersions.Read") >= 1
    /\ (pollKind = "cv" /\ pollPc \in {"returned", "idle"} /\ pollRet # Nil)
          => "Runs.Create" \notin Calls

C19_Witness ==
    /\ "Runs.Create" \in Calls
    /\ Count("ConfigurationVersions.Read") = 2
    /\ cv.Status = ConfigurationUploaded

\* The one-shot remote calls.
OneShotCalls ==
    {"Workspaces.Read", "ConfigurationVersions.Create",
     "ConfigurationVersions.Upload", "Runs.Create",
     "StateVersions.ReadCurrent", "StateVersions.Download"}

C21_TimeoutOnlyAfterNotDone ==
    /\ [](/\ (pollPc = "returned" /\ pollRet = ErrTimeout)
                => (ticks >= 1 /\ fnResult = <<FALSE, Nil>>)
          /\ (pollPc = "returned" /\ ticks = 0)
                => (ctxDone /\ pollRet = Canceled)
          /\ (fnResult \notin {<<>>, <<FALSE, Nil>>} /\ sinceStart > timeout)
                => /\ pollPc \in {"returned", "idle"}
                   /\ pollRet = fnResult[2]
                   /\ pollRet # ErrTimeout)
    /\ (caller = "poll") ~> (ctxDone \/ ticks >= 1)

C21_Witness ==
    /\ caller = "poll"
    /\ timeout < Interval
    /\ ticks = 1
    /\ fnResult = <<FALSE, RemoteErr>>
    /\ sinceStart > timeout + LongCall
    /\ pollPc = "returned"
    /\ pollRet = RemoteErr

====
